---- MODULE Spec2Model ----
(***************************************************************************)
(* A model of the chit-fund backend (core/models.py, core/serializers.py,  *)
(* core/views.py, core/urls.py, core/admin.py).                            *)
(*                                                                         *)
(* The store is four tables (chits, members, loans, ledger entries), each  *)
(* kept in insertion order.  Requests are served by concurrent workers;    *)
(* every database statement of a handler is one step of its worker, so     *)
(* that statements of different requests interleave as the store allows.   *)
(* Identifiers are modelled as the character strings the code builds.      *)
(***************************************************************************)
EXTENDS Integers, Sequences, FiniteSets, TLC

(***************************************************************************)
(* Bounds of the model.                                                    *)
(***************************************************************************)
NumProcs == 2
MaxCreates == 4
MaxSeqCreates == 5
MaxTicks == 1
MaxAmount == 1
MaxDuration == 1
MaxDate == 2
MaxAuthCreates == 3
MaxValidCreates == 4
MaxReadCreates == 6
MaxReadRows == 2
MaxTenths == 2
MaxEditCreates == 4
SerialRuns == 1002
BulkCount == 996

Procs == 1..NumProcs

(***************************************************************************)
(* Strings: a string is a sequence of one-character strings.               *)
(***************************************************************************)
Digits == <<"0", "1", "2", "3", "4", "5", "6", "7", "8", "9">>

\* The characters that occur in identifiers, in code-point order.
Alphabet == <<"-", "0", "1", "2", "3", "4", "5", "6", "7", "8", "9",
              "C", "E", "H", "L", "M", "N", "T">>

Ord(c) == CHOOSE i \in 1..Len(Alphabet) : Alphabet[i] = c

IsDigit(c) == \E i \in 1..Len(Digits) : Digits[i] = c

DigitVal(c) == (CHOOSE i \in 1..Len(Digits) : Digits[i] = c) - 1

\* str(n) for n >= 0
RECURSIVE StrOfNat(_)
StrOfNat(n) ==
    IF n < 10 THEN <<Digits[n + 1]>>
    ELSE StrOfNat(n \div 10) \o <<Digits[(n % 10) + 1]>>

\* int(s) for a string of decimal digits (leading zeros allowed)
RECURSIVE IntOf(_)
IntOf(s) ==
    IF Len(s) = 0 THEN 0
    ELSE 10 * IntOf(SubSeq(s, 1, Len(s) - 1)) + DigitVal(s[Len(s)])

\* s.zfill(w): pad on the left with "0" up to width w, never truncate
RECURSIVE ZFill(_, _)
ZFill(s, w) == IF Len(s) >= w THEN s ELSE ZFill(<<"0">> \o s, w)

\* s.startswith(pre)
StartsWith(s, pre) ==
    /\ Len(s) >= Len(pre)
    /\ \A i \in 1..Len(pre) : s[i] = pre[i]

\* s.split('-')[-1]: what follows the last "-" of s (all of s if it has none)
SplitLast(s) ==
    LET dashes == {i \in 1..Len(s) : s[i] = "-"}
        last   == IF dashes = {} THEN 0
                  ELSE CHOOSE i \in dashes : \A j \in dashes : j <= i
    IN SubSeq(s, last + 1, Len(s))

\* a < b in the order of the store's ORDER BY on a string column
RECURSIVE LexLessFrom(_, _, _)
LexLessFrom(a, b, i) ==
    IF i > Len(a) THEN i <= Len(b)
    ELSE IF i > Len(b) THEN FALSE
    ELSE IF a[i] # b[i] THEN Ord(a[i]) < Ord(b[i])
    ELSE LexLessFrom(a, b, i + 1)

LexLess(a, b) == LexLessFrom(a, b, 1)

\* the greatest string among ids[lo..hi] (lo <= hi), by halving
RECURSIVE LexMaxOf(_, _, _)
LexMaxOf(ids, lo, hi) ==
    IF lo = hi THEN ids[lo]
    ELSE LET mid == (lo + hi) \div 2
             l   == LexMaxOf(ids, lo, mid)
             r   == LexMaxOf(ids, mid + 1, hi)
         IN IF LexLess(l, r) THEN r ELSE l

(***************************************************************************)
(* State.                                                                  *)
(***************************************************************************)
VARIABLES
    now,        \* datetime.now(): [year, month]
    chits,      \* table chits, rows in insertion order
    members,    \* table members
    loans,      \* table loans
    entries,    \* table ledger_entries
    next_pk,    \* next value of ledger_entries.id (AutoField)
    pc,         \* per worker: where its request stands
    req,        \* per worker: the request it serves
    loc,        \* per worker: locals of the handler (prefix, new_sequence, ...)
    resp,       \* the status of the response the last step sent, if any
    log         \* the create requests that passed validation and were
                \* answered, in the order answered: 201 or 500

vars == <<now, chits, members, loans, entries, next_pk, pc, req, loc, resp, log>>

Kinds == {"chit", "member", "loan", "entry"}

\* an id no row carries (a request naming a row that does not exist)
NoId == <<>>

\* a text no request carries (a field left out or blank)
NoText == <<>>

NoRow == [id |-> 0, entry_id |-> NoId, serial_no |-> 0, member |-> NoId,
          chit |-> NoId, amount |-> 0, fine |-> 0, loan_amount |-> 0,
          payment_method |-> ""]

\* request.data: the fields the handlers read
NoReq == [kind |-> "none", chit |-> NoId, member |-> NoId,
          amount |-> 0, fine |-> 0, loan_amount |-> 0, interest_amount |-> 0,
          paid_amount |-> 0, status |-> "", payment_method |-> "",
          total_duration |-> 0, starting_date |-> 0, ending_date |-> 0,
          password |-> NoText, mobile_number |-> NoText, is_admin |-> FALSE,
          entry_id |-> NoId, serial_no |-> 0]

(***************************************************************************)
(* float(): the views convert the Decimal sums to Python floats, which are *)
(* binary doubles of 53 significant bits, and compute with them.  Money is *)
(* counted in hundredths (DecimalField(decimal_places=2)).  A double is    *)
(* its sign and its binary digits, IntBits of them before the point and    *)
(* FracBits after it, held as Limbs numbers of LimbBits digits each, the   *)
(* most significant first.                                                 *)
(***************************************************************************)
Precision == 53
LimbBits == 23
Limbs == 3
Width == Limbs * LimbBits
IntBits == 8
FracBits == Width - IntBits

RECURSIVE Pow2(_)
Pow2(n) == IF n = 0 THEN 1 ELSE 2 * Pow2(n - 1)

Powers == [n \in 0..LimbBits |-> Pow2(n)]

Base == Powers[LimbBits]

Abs(n) == IF n < 0 THEN 0 - n ELSE n

NoBits == [k \in 1..Limbs |-> 0]

\* c hundredths in binary, cut off after FracBits digits: long division
\* by 100, one limb at a time, and what is left over
Expansion(c) ==
    LET point == Powers[LimbBits - IntBits]
        top   == (c % 100) * point
        mid   == (top % 100) * Base
        low   == (mid % 100) * Base
    IN [digits |-> <<(c \div 100) * point + top \div 100, mid \div 100, low \div 100>>,
        left   |-> low % 100]

AddBits(a, b) ==
    LET s3 == a[3] + b[3]
        s2 == a[2] + b[2] + s3 \div Base
        s1 == a[1] + b[1] + s2 \div Base
    IN <<s1 % Base, s2 % Base, s3 % Base>>

\* a - b, for a >= b
SubBits(a, b) ==
    LET d3 == a[3] - b[3]
        d2 == a[2] - b[2] - (IF d3 < 0 THEN 1 ELSE 0)
        d1 == a[1] - b[1] - (IF d2 < 0 THEN 1 ELSE 0)
    IN <<(d1 + Base) % Base, (d2 + Base) % Base, (d3 + Base) % Base>>

LessBits(a, b) ==
    \E k \in 1..Limbs : a[k] < b[k] /\ \A j \in 1..(k - 1) : a[j] = b[j]

\* the digit of weight 2^q of the smallest digit
Bit(a, q) == (a[Limbs - q \div LimbBits] \div Powers[q % LimbBits]) % 2

\* the position of the first digit that is 1
Leading(a) ==
    LET k == CHOOSE i \in 1..Limbs : a[i] # 0 /\ \A j \in 1..(i - 1) : a[j] = 0
        e == CHOOSE n \in 0..(LimbBits - 1) : Powers[n] <= a[k] /\ a[k] < Powers[n + 1]
    IN (Limbs - k) * LimbBits + e

\* the digits of a below position p
Low(a, p) ==
    [k \in 1..Limbs |->
        LET from == (Limbs - k) * LimbBits
        IN IF p >= from + LimbBits THEN a[k]
           ELSE IF p <= from THEN 0
           ELSE a[k] % Powers[p - from]]

UnitAt(p) ==
    [k \in 1..Limbs |->
        LET from == (Limbs - k) * LimbBits
        IN IF from <= p /\ p < from + LimbBits THEN Powers[p - from] ELSE 0]

\* round to Precision significant digits, to nearest, ties to even;
\* "more" says that digits beyond the Width were cut off
RoundUp(bits, more, last) ==
    /\ Bit(bits, last - 1) = 1
    /\ more \/ Low(bits, last - 1) # NoBits \/ Bit(bits, last) = 1

\* the digits from position "last" up, and one unit more when rounding up
RoundAt(bits, more, last) ==
    IF last <= 0 THEN bits
    ELSE IF RoundUp(bits, more, last)
    THEN AddBits([k \in 1..Limbs |-> bits[k] - Low(bits, last)[k]], UnitAt(last))
    ELSE [k \in 1..Limbs |-> bits[k] - Low(bits, last)[k]]

RoundToNearest(bits, more) ==
    IF bits = NoBits THEN bits
    ELSE RoundAt(bits, more, Leading(bits) - (Precision - 1))

\* a float of sign and digits; zero has no sign
Signed(neg, bits) == [neg |-> neg /\ bits # NoBits, bits |-> bits]

Rounded(neg, bits, more) == Signed(neg, RoundToNearest(bits, more))

FloatOfExpansion(neg, e) == Rounded(neg, e.digits, e.left # 0)

\* float(Decimal): the double nearest to c hundredths
FloatOfDecimal(c) == FloatOfExpansion(c < 0, Expansion(Abs(c)))

\* x + y of two floats
FloatAdd(x, y) ==
    Rounded(IF x.neg = y.neg \/ ~LessBits(x.bits, y.bits) THEN x.neg ELSE y.neg,
            IF x.neg = y.neg THEN AddBits(x.bits, y.bits)
            ELSE IF LessBits(x.bits, y.bits) THEN SubBits(y.bits, x.bits)
            ELSE SubBits(x.bits, y.bits),
            FALSE)

\* x - y of two floats
FloatSub(x, y) == FloatAdd(x, [y EXCEPT !.neg = ~@ /\ y.bits # NoBits])

\* the "data" of a response that carries no figures
NoData == [total_amount |-> FloatOfDecimal(0), total_profit |-> FloatOfDecimal(0),
           total_members |-> 0, active_loans |-> 0,
           total_loan_amount |-> FloatOfDecimal(0),
           total_loan_interest |-> FloatOfDecimal(0),
           total_fine |-> FloatOfDecimal(0), online_cash |-> FloatOfDecimal(0),
           offline_cash |-> FloatOfDecimal(0), net_balance |-> FloatOfDecimal(0),
           active_count |-> 0, total_received_amount |-> FloatOfDecimal(0),
           total_interest |-> FloatOfDecimal(0), loans |-> <<>>]

\* Response(body, status): the status, what the body says (an identifier or
\* a message), for a login or a read the request it answers, and the
\* figures of a dashboard or a list of loans

Response(status, body, to) ==
    [status |-> status, body |-> body, is_admin |-> FALSE, to |-> to,
     data |-> NoData]

Status(status) == Response(status, NoText, NoReq)

NoResp == Status("none")

NoLoc == [prefix |-> NoId, new_sequence |-> 0, serial_no |-> 0, inst |-> NoRow]

(***************************************************************************)
(* Queries on the tables.                                                  *)
(***************************************************************************)
\* the identifier column of a table, in row order
IdsOf(kind) ==
    CASE kind = "chit"   -> [i \in 1..Len(chits)   |-> chits[i].chit_id]
      [] kind = "member" -> [i \in 1..Len(members) |-> members[i].member_id]
      [] kind = "loan"   -> [i \in 1..Len(loans)   |-> loans[i].loan_id]
      [] kind = "entry"  -> [i \in 1..Len(entries) |-> entries[i].entry_id]

Range(s) == {s[i] : i \in 1..Len(s)}

\* Model.objects.filter(<id column>=id).exists()
Exists(kind, id) == \E i \in 1..Len(IdsOf(kind)) : IdsOf(kind)[i] = id

ChitExists(chit_id) == \E i \in 1..Len(chits) : chits[i].chit_id = chit_id

MemberExists(member_id) == \E i \in 1..Len(members) : members[i].member_id = member_id

\* Member.objects.get(member_id=member_id), for an existing member
GetMember(member_id) ==
    members[CHOOSE i \in 1..Len(members) : members[i].member_id = member_id]

EntryPkExists(pk) == \E i \in 1..Len(entries) : entries[i].id = pk

\* LedgerEntry.objects.get(id=pk), for an existing entry
GetEntry(pk) == entries[CHOOSE i \in 1..Len(entries) : entries[i].id = pk]

(***************************************************************************)
(* The sequential identifier generator.                                    *)
(***************************************************************************)
PrefixOf(kind) ==
    CASE kind = "chit"   -> <<"C", "H", "T">>
      [] kind = "member" -> <<"M", "E", "M">>
      [] kind = "loan"   -> <<"L", "N">>
      [] kind = "entry"  -> <<"L", "E">>

\* now.strftime('%Y%m')
YearMonth(t) == ZFill(StrOfNat(t.year), 4) \o ZFill(StrOfNat(t.month), 2)

\* f"{PREFIX}-{year_month}-"
IdPrefix(kind, t) == PrefixOf(kind) \o <<"-">> \o YearMonth(t) \o <<"-">>

\* width of the zero-padded sequence part: zfill(3)
SeqWidth == 3

\* sequence_str = str(new_sequence).zfill(3)
SequenceStr(n) == ZFill(StrOfNat(n), SeqWidth)

\* f"{prefix}{sequence_str}"
MakeId(prefix, n) == prefix \o SequenceStr(n)

\* the query without its month filter: every identifier of the table
MatchingAnyMonth(kind, prefix) == IdsOf(kind)

\* Model.objects.filter(id__startswith=prefix): the identifiers of the table
\* that start with the prefix, in row order
MatchingIn(ids, prefix) ==
    LET Test(s) == StartsWith(s, prefix)
    IN SelectSeq(ids, Test)

Matching(kind, prefix) == MatchingIn(IdsOf(kind), prefix)

\* new_sequence as first computed: last_sequence + 1 for the latest
\* identifier (order_by('-id').first()), or 1 for the first of the month
SequenceAfter(m) ==
    IF Len(m) > 0
    THEN IntOf(SplitLast(LexMaxOf(m, 1, Len(m)))) + 1
    ELSE 1

FirstSequence(kind, prefix) == SequenceAfter(Matching(kind, prefix))

\* the latest serial_no of the whole table plus 1, or 1
GenerateSerialNoOfAll(chit_id) ==
    IF entries # <<>>
    THEN (CHOOSE s \in {entries[i].serial_no : i \in 1..Len(entries)} :
             \A i \in 1..Len(entries) : entries[i].serial_no <= s) + 1
    ELSE 1

\* LedgerEntry._generate_serial_no: latest serial_no of the chit plus 1, or 1
GenerateSerialNo(chit_id) ==
    LET own == {i \in 1..Len(entries) : entries[i].chit = chit_id}
    IN IF own # {}
       THEN (CHOOSE s \in {entries[i].serial_no : i \in own} :
                \A i \in own : entries[i].serial_no <= s) + 1
       ELSE 1

\* "while Model.objects.filter(id=candidate).exists(): new_sequence += 1",
\* on the identifier column of the table
RECURSIVE FreeFrom(_, _, _)
FreeFrom(ids, prefix, n) ==
    IF \E i \in 1..Len(ids) : ids[i] = MakeId(prefix, n)
    THEN FreeFrom(ids, prefix, n + 1)
    ELSE n

\* _generate_sequential_*_id run at once on the identifier column of a
\* table: the identifier the next row gets
NextIdIn(ids, prefix) ==
    MakeId(prefix, FreeFrom(ids, prefix, SequenceAfter(MatchingIn(ids, prefix))))

\* the identifier the next row of this kind gets
NextIdOf(kind) == NextIdIn(IdsOf(kind), IdPrefix(kind, now))

(***************************************************************************)
(* Passwords (django.contrib.auth.hashers, as the models and the login     *)
(* view use it).  A password is a string of characters.                    *)
(***************************************************************************)
\* 'pbkdf2_': what Model.save() takes as the sign of a hashed password
Marker == <<"p", "b", "k", "d", "f", "2", "_">>

\* the algorithm name of the default hasher
Algorithm == Marker \o <<"s", "h", "a", "2", "5", "6">>

\* the digest of a password: a text that determines the password and is
\* determined by it (the salt and the iteration count are part of it)
Digest(password) == <<"h", "(">> \o password \o <<")">>

\* make_password(password): "<algorithm>$<digest>"
MakePassword(password) == Algorithm \o <<"$">> \o Digest(password)

\* encoded.split('$', 1)[0]: what precedes the first "$" (all of it if none)
SplitFirst(s) ==
    LET dollars == {i \in 1..Len(s) : s[i] = "$"}
        first   == IF dollars = {} THEN Len(s) + 1
                   ELSE CHOOSE i \in dollars : \A j \in dollars : i <= j
    IN SubSeq(s, 1, first - 1)

\* check_password(password, encoded): the hasher named by the encoded text
\* must be a known one (else False) and must verify the password
CheckPassword(password, encoded) ==
    /\ SplitFirst(encoded) = Algorithm
    /\ encoded = MakePassword(password)

\* Model.save() hashing every password it is given, hashed or not
HashAlways(password) ==
    IF password # NoText THEN MakePassword(password) ELSE password

\* Chit.save / Member.save: "if self.password and not
\* self.password.startswith('pbkdf2_'): self.password = make_password(...)"
HashOnSave(password) ==
    IF password # NoText /\ ~StartsWith(password, Marker)
    THEN MakePassword(password)
    ELSE password

(***************************************************************************)
(* Constraints the store enforces on INSERT.                               *)
(***************************************************************************)
\* a store that does not enforce uniqueness of the identifier column
DuplicateIdUnchecked(kind, id) == FALSE

\* primary key / unique=True on the identifier column
DuplicateId(kind, id) == Exists(kind, id)

\* a store that does not enforce unique_together on (chit, serial_no)
DuplicateSerialUnchecked(chit_id, serial_no) == FALSE

\* unique_together = [['chit', 'serial_no']]
DuplicateSerial(chit_id, serial_no) ==
    \E i \in 1..Len(entries) :
        entries[i].chit = chit_id /\ entries[i].serial_no = serial_no

\* unique_together = [['chit', 'mobile_number']]
DuplicateMobile(chit_id, mobile_number) ==
    \E i \in 1..Len(members) :
        members[i].chit = chit_id /\ members[i].mobile_number = mobile_number

\* the foreign keys of a row of this kind reference existing rows
ForeignKeysHold(kind, r) ==
    CASE kind = "chit"   -> TRUE
      [] kind = "member" -> ChitExists(r.chit)
      [] kind = "loan"   -> MemberExists(r.member) /\ ChitExists(r.chit)
      [] kind = "entry"  -> MemberExists(r.member) /\ ChitExists(r.chit)

(***************************************************************************)
(* Create requests: POST api/chits/, api/members/, api/loans/,             *)
(* api/ledger/entries/.                                                    *)
(***************************************************************************)
Creating(p) == pc[p] \in {"read", "check", "serial", "insert"}

\* create requests accepted so far: answered or still being served
Started == Len(log) + Cardinality({p \in Procs : Creating(p)})

\* the names of the fields in error, in the order of the conditions
Errors(conds) ==
    LET RECURSIVE From(_)
        From(i) == IF i > Len(conds) THEN <<>>
                   ELSE (IF conds[i][1] THEN <<conds[i][2]>> ELSE <<>>) \o From(i + 1)
    IN From(1)

\* the first of the conditions that holds names the field in error
FirstError(conds) ==
    LET e == Errors(conds)
    IN IF e = <<>> THEN <<>> ELSE <<e[1]>>

\* serializer.is_valid() passed: the worker goes on to Model.save()
Accept(p, r) ==
    /\ pc' = [pc EXCEPT ![p] = "read"]
    /\ req' = [req EXCEPT ![p] = r]
    /\ resp' = NoResp
    /\ UNCHANGED <<now, chits, members, loans, entries, next_pk, loc, log>>

\* the request is answered without touching the store
Answer(p, r) ==
    /\ resp' = r
    /\ UNCHANGED <<now, chits, members, loans, entries, next_pk, pc, req, loc, log>>

\* Response(serializer.errors, status=400)
Reject(p, errors) == Answer(p, Response("400", errors, NoReq))

\* serializers.CharField: a text is required and may not be blank
Blank(text) == text = NoText

\* CharField(max_length=10) of Member.mobile_number
MobileMaxLength == 10

\* no check of total_duration
DurationUnchecked(value) == FALSE

\* ChitSerializer.validate_total_duration: "if value <= 0"
BadDuration(value) == value <= 0

\* "if data['starting_date'] >= data['ending_date']"
BadDates(d) == d.starting_date >= d.ending_date

\* ChitSerializer: field validators, then validate()
ChitErrors(d) ==
    LET fields == Errors(<< <<BadDuration(d.total_duration), "total_duration">>,
                            <<Blank(d.password), "password">> >>)
    IN IF fields # <<>> THEN fields
       ELSE FirstError(<< <<BadDates(d), "non_field_errors">> >>)

CreateChit(p, d) ==
    /\ pc[p] = "idle"
    /\ IF ChitErrors(d) # <<>>
       THEN Reject(p, ChitErrors(d))
       ELSE Accept(p, [NoReq EXCEPT !.kind = "chit",
                                    !.total_duration = d.total_duration,
                                    !.starting_date = d.starting_date,
                                    !.ending_date = d.ending_date,
                                    !.password = d.password])

\* MemberSerializer: field validators, then validate(): the chit must exist
MemberErrors(chit_id, d) ==
    LET fields == Errors(<<
            <<Blank(d.mobile_number) \/ Len(d.mobile_number) > MobileMaxLength,
              "mobile_number">>,
            <<Blank(d.password), "password">> >>)
    IN IF fields # <<>> THEN fields
       ELSE FirstError(<< <<~ChitExists(chit_id), "chit_id">> >>)

AddMember(p, chit_id, d) ==
    /\ pc[p] = "idle"
    /\ IF MemberErrors(chit_id, d) # <<>>
       THEN Reject(p, MemberErrors(chit_id, d))
       ELSE Accept(p, [NoReq EXCEPT !.kind = "member", !.chit = chit_id,
                                    !.mobile_number = d.mobile_number,
                                    !.password = d.password])

\* a serializer that does not compare the member's chit with the chit
AnyChit(member_id, chit_id) == FALSE

\* "if member.chit != chit", for an existing member
OtherChit(member_id, chit_id) == GetMember(member_id).chit # chit_id

\* Loan.STATUS_CHOICES and LedgerEntry.PAYMENT_METHOD_CHOICES
LoanStatuses == {"active", "overdue"}
PaymentMethods == {"online", "offline"}

\* a serializer that takes any text for a field with choices
ChoiceUnchecked(value, choices) == FALSE

\* ChoiceField: "<value> is not a valid choice"
BadChoice(value, choices) == value \notin choices

\* LoanSerializer: validate_loan_amount, validate_interest_amount, then
\* validate(): member and chit exist, the member belongs to the chit, dates
LoanErrors(member_id, chit_id, d) ==
    LET fields == Errors(<< <<d.loan_amount <= 0, "loan_amount">>,
                            <<d.interest_amount < 0, "interest_amount">>,
                            <<BadChoice(d.status, LoanStatuses), "status">> >>)
    IN IF fields # <<>> THEN fields
       ELSE FirstError(<<
            <<~MemberExists(member_id), "member_id">>,
            <<~ChitExists(chit_id), "chit_id">>,
            <<MemberExists(member_id) /\ OtherChit(member_id, chit_id), "member_id">>,
            <<BadDates(d), "ending_date">> >>)

AddLoan(p, member_id, chit_id, d) ==
    /\ pc[p] = "idle"
    /\ IF LoanErrors(member_id, chit_id, d) # <<>>
       THEN Reject(p, LoanErrors(member_id, chit_id, d))
       ELSE Accept(p, [NoReq EXCEPT !.kind = "loan", !.chit = chit_id,
                                    !.member = member_id,
                                    !.loan_amount = d.loan_amount,
                                    !.paid_amount = d.paid_amount,
                                    !.status = d.status,
                                    !.interest_amount = d.interest_amount,
                                    !.starting_date = d.starting_date,
                                    !.ending_date = d.ending_date])

\* LedgerEntrySerializer: validate_amount, validate_fine,
\* validate_loan_amount, then validate() (create branch)
EntryErrors(member_id, chit_id, d) ==
    LET fields == Errors(<< <<d.amount < 0, "amount">>,
                            <<d.fine < 0, "fine">>,
                            <<d.loan_amount < 0, "loan_amount">>,
                            <<BadChoice(d.payment_method, PaymentMethods),
                              "payment_method">> >>)
    IN IF fields # <<>> THEN fields
       ELSE FirstError(<<
            <<~MemberExists(member_id), "member_id">>,
            <<~ChitExists(chit_id), "chit_id">>,
            <<MemberExists(member_id) /\ OtherChit(member_id, chit_id), "member_id">> >>)

AddLedgerEntry(p, member_id, chit_id, d) ==
    /\ pc[p] = "idle"
    /\ IF EntryErrors(member_id, chit_id, d) # <<>>
       THEN Reject(p, EntryErrors(member_id, chit_id, d))
       ELSE Accept(p, [NoReq EXCEPT !.kind = "entry", !.chit = chit_id,
                                    !.member = member_id, !.amount = d.amount,
                                    !.fine = d.fine, !.loan_amount = d.loan_amount,
                                    !.payment_method = d.payment_method])

\* _generate_sequential_*_id, up to the first candidate: read the clock,
\* query the latest identifier of the month
ReadLatest(p) ==
    /\ pc[p] = "read"
    /\ LET prefix == IdPrefix(req[p].kind, now)
       IN loc' = [loc EXCEPT ![p] =
                     [NoLoc EXCEPT !.prefix = prefix,
                                   !.new_sequence = FirstSequence(req[p].kind, prefix)]]
    /\ pc' = [pc EXCEPT ![p] = "check"]
    /\ resp' = NoResp
    /\ UNCHANGED <<now, chits, members, loans, entries, next_pk, req, log>>

\* the generator without its uniqueness loop: the first candidate is used
CheckExistsSkipped(p) ==
    /\ pc[p] = "check"
    /\ loc' = loc
    /\ pc' = [pc EXCEPT ![p] = IF req[p].kind = "entry" THEN "serial" ELSE "insert"]
    /\ resp' = NoResp
    /\ UNCHANGED <<now, chits, members, loans, entries, next_pk, req, log>>

\* one test of "while Model.objects.filter(id=candidate).exists()"
CheckExists(p) ==
    /\ pc[p] = "check"
    /\ IF Exists(req[p].kind, MakeId(loc[p].prefix, loc[p].new_sequence))
       THEN /\ loc' = [loc EXCEPT ![p].new_sequence = @ + 1]
            /\ pc' = pc
       ELSE /\ loc' = loc
            /\ pc' = [pc EXCEPT ![p] =
                        IF req[p].kind = "entry" THEN "serial" ELSE "insert"]
    /\ resp' = NoResp
    /\ UNCHANGED <<now, chits, members, loans, entries, next_pk, req, log>>

\* LedgerEntry.save: self.serial_no = self._generate_serial_no()
ReadSerial(p) ==
    /\ pc[p] = "serial"
    /\ loc' = [loc EXCEPT ![p].serial_no = GenerateSerialNo(req[p].chit)]
    /\ pc' = [pc EXCEPT ![p] = "insert"]
    /\ resp' = NoResp
    /\ UNCHANGED <<now, chits, members, loans, entries, next_pk, req, log>>

\* the row super().save() inserts
NewRow(p) ==
    LET id == MakeId(loc[p].prefix, loc[p].new_sequence)
    IN CASE req[p].kind = "chit"   -> [chit_id |-> id,
                                       total_duration |-> req[p].total_duration,
                                       starting_date |-> req[p].starting_date,
                                       ending_date |-> req[p].ending_date,
                                       password |-> HashOnSave(req[p].password)]
         [] req[p].kind = "member" -> [member_id |-> id, chit |-> req[p].chit,
                                       mobile_number |-> req[p].mobile_number,
                                       password |-> HashOnSave(req[p].password)]
         [] req[p].kind = "loan"   -> [loan_id |-> id, member |-> req[p].member,
                                       chit |-> req[p].chit,
                                       loan_amount |-> req[p].loan_amount,
                                       paid_amount |-> req[p].paid_amount,
                                       status |-> req[p].status,
                                       interest_amount |-> req[p].interest_amount,
                                       starting_date |-> req[p].starting_date,
                                       ending_date |-> req[p].ending_date]
         [] req[p].kind = "entry"  -> [id |-> next_pk, entry_id |-> id,
                                       serial_no |-> loc[p].serial_no,
                                       member |-> req[p].member,
                                       chit |-> req[p].chit,
                                       amount |-> req[p].amount,
                                       fine |-> req[p].fine,
                                       loan_amount |-> req[p].loan_amount,
                                       payment_method |-> req[p].payment_method]

\* how the INSERT of worker p ends: 201, or the IntegrityError the store raises
InsertStatus(p) ==
    LET kind == req[p].kind
        id   == MakeId(loc[p].prefix, loc[p].new_sequence)
    IN IF DuplicateId(kind, id) THEN "500 duplicate id"
       ELSE IF kind = "entry" /\ DuplicateSerial(req[p].chit, loc[p].serial_no)
       THEN "500 duplicate serial_no"
       ELSE IF kind = "member" /\ DuplicateMobile(req[p].chit, req[p].mobile_number)
       THEN "500 duplicate mobile_number"
       ELSE IF ~ForeignKeysHold(kind, NewRow(p)) THEN "500 foreign key"
       ELSE "201"

\* super().save(): INSERT (objects.create forces an insert); an
\* IntegrityError is not caught by the view and ends the request as a 500
Insert(p) ==
    /\ pc[p] = "insert"
    /\ LET kind == req[p].kind
           id   == MakeId(loc[p].prefix, loc[p].new_sequence)
           st   == InsertStatus(p)
           ok   == st = "201"
       IN /\ chits'   = IF ok /\ kind = "chit" THEN Append(chits, NewRow(p)) ELSE chits
          /\ members' = IF ok /\ kind = "member" THEN Append(members, NewRow(p)) ELSE members
          /\ loans'   = IF ok /\ kind = "loan" THEN Append(loans, NewRow(p)) ELSE loans
          /\ entries' = IF ok /\ kind = "entry" THEN Append(entries, NewRow(p)) ELSE entries
          /\ next_pk' = IF ok /\ kind = "entry" THEN next_pk + 1 ELSE next_pk
          /\ resp' = Response(st, IF ok THEN id ELSE NoText, NoReq)
          /\ log' = Append(log, [kind |-> kind, id |-> id, chit |-> req[p].chit,
                                 serial_no |-> loc[p].serial_no,
                                 prefix |-> loc[p].prefix, status |-> st,
                                 password |-> req[p].password])
    /\ pc' = [pc EXCEPT ![p] = "idle"]
    /\ req' = [req EXCEPT ![p] = NoReq]
    /\ loc' = [loc EXCEPT ![p] = NoLoc]
    /\ UNCHANGED now

(***************************************************************************)
(* URL dispatch (core/urls.py): the first pattern that matches the path    *)
(* names the view; a method the view does not define is answered 405.      *)
(***************************************************************************)
Urlpatterns == <<
    [route |-> "api/chits/",                       view |-> "CreateChitAPIView"],
    [route |-> "api/members/",                     view |-> "AddMemberAPIView"],
    [route |-> "api/loans/",                       view |-> "AddLoanAPIView"],
    [route |-> "api/ledger/entries/",              view |-> "AddLedgerEntryAPIView"],
    [route |-> "api/ledger/entries/<int:entry_id>/", view |-> "UpdateLedgerEntryAPIView"],
    [route |-> "api/ledger/entries/<int:entry_id>/", view |-> "DeleteLedgerEntryAPIView"] >>

Methods(view) ==
    CASE view = "UpdateLedgerEntryAPIView" -> {"PUT"}
      [] view = "DeleteLedgerEntryAPIView" -> {"DELETE"}
      [] OTHER -> {"POST"}

Resolve(route) ==
    LET hits == {i \in 1..Len(Urlpatterns) : Urlpatterns[i].route = route}
    IN Urlpatterns[CHOOSE i \in hits : \A j \in hits : i <= j].view

Dispatch(method, route) ==
    IF method \in Methods(Resolve(route)) THEN Resolve(route) ELSE "405"

EntryRoute == "api/ledger/entries/<int:entry_id>/"

(***************************************************************************)
(* Ledger entry update and delete.                                         *)
(***************************************************************************)
\* a field of a partial update that the request leaves out
Absent == ""

\* LedgerEntrySerializer(entry, data, partial=True): the field validators
\* of the fields supplied; validate() looks nothing up for an update
UpdateErrors(d) ==
    Errors(<< <<d.amount < 0, "amount">>,
              <<d.fine < 0, "fine">>,
              <<d.loan_amount < 0, "loan_amount">>,
              <<d.payment_method # Absent /\ BadChoice(d.payment_method, PaymentMethods),
                "payment_method">> >>)

\* an update that writes every field the request names
UpdatedInstanceAll(entry, d) ==
    [entry EXCEPT !.amount = d.amount, !.fine = d.fine,
                  !.loan_amount = d.loan_amount,
                  !.payment_method = IF d.payment_method = Absent THEN @
                                     ELSE d.payment_method,
                  !.member = IF d.member = NoId THEN @ ELSE d.member,
                  !.chit = IF d.chit = NoId THEN @ ELSE d.chit,
                  !.entry_id = IF d.entry_id = NoId THEN @ ELSE d.entry_id,
                  !.serial_no = IF d.serial_no = 0 THEN @ ELSE d.serial_no]

\* LedgerEntrySerializer.update: id, entry_id and serial_no are read-only,
\* member_id and chit_id are popped, the other fields are set on the instance
UpdatedInstance(entry, d) ==
    [entry EXCEPT !.amount = d.amount, !.fine = d.fine,
                  !.loan_amount = d.loan_amount,
                  !.payment_method = IF d.payment_method = Absent THEN @
                                     ELSE d.payment_method]

\* request.data of an update
UpdateRequest(d) ==
    [NoReq EXCEPT !.kind = "update", !.member = d.member, !.chit = d.chit,
                  !.amount = d.amount, !.fine = d.fine, !.loan_amount = d.loan_amount,
                  !.payment_method = d.payment_method,
                  !.entry_id = d.entry_id, !.serial_no = d.serial_no]

\* UpdateLedgerEntryAPIView.put up to serializer.is_valid():
\* LedgerEntry.objects.get(id=entry_id), then the validators
UpdateLedgerEntry(p, pk, d) ==
    /\ pc[p] = "idle"
    /\ IF Dispatch("PUT", EntryRoute) # "UpdateLedgerEntryAPIView"
       THEN Answer(p, Response("405", NoText, UpdateRequest(d)))
       ELSE IF ~EntryPkExists(pk) THEN Answer(p, Response("404", NoText, UpdateRequest(d)))
       ELSE IF UpdateErrors(d) # <<>>
       THEN Answer(p, Response("400", UpdateErrors(d), UpdateRequest(d)))
       ELSE /\ pc' = [pc EXCEPT ![p] = "save"]
            /\ req' = [req EXCEPT ![p] = UpdateRequest(d)]
            /\ loc' = [loc EXCEPT ![p] =
                          [NoLoc EXCEPT !.inst = UpdatedInstance(GetEntry(pk), d)]]
            /\ resp' = NoResp
            /\ UNCHANGED <<now, chits, members, loans, entries, next_pk, log>>

\* LedgerEntrySerializer.update: instance.save().  entry_id and serial_no are
\* set, so nothing is generated; Model.save() issues an UPDATE by primary key
\* and, when that matches no row, an INSERT of the instance.
SaveEntry(p) ==
    /\ pc[p] = "save"
    /\ LET inst == loc[p].inst
       IN IF EntryPkExists(inst.id)
          THEN /\ entries' = [i \in 1..Len(entries) |->
                                 IF entries[i].id = inst.id THEN inst ELSE entries[i]]
               /\ resp' = Response("200", NoText, req[p])
          ELSE IF DuplicateId("entry", inst.entry_id)
          THEN /\ entries' = entries
               /\ resp' = Status("500 duplicate id")
          ELSE IF DuplicateSerial(inst.chit, inst.serial_no)
          THEN /\ entries' = entries
               /\ resp' = Status("500 duplicate serial_no")
          ELSE IF ~ForeignKeysHold("entry", inst)
          THEN /\ entries' = entries
               /\ resp' = Status("500 foreign key")
          ELSE /\ entries' = Append(entries, inst)
               /\ resp' = Response("200", NoText, req[p])
    /\ pc' = [pc EXCEPT ![p] = "idle"]
    /\ req' = [req EXCEPT ![p] = NoReq]
    /\ loc' = [loc EXCEPT ![p] = NoLoc]
    /\ UNCHANGED <<now, chits, members, loans, next_pk, log>>

DeleteRequest == [NoReq EXCEPT !.kind = "delete"]

\* a DELETE request to api/ledger/entries/<pk>/; the handler it reaches, if
\* any, is DeleteLedgerEntryAPIView.delete: get the entry, entry.delete()
DeleteLedgerEntry(p, pk) ==
    /\ pc[p] = "idle"
    /\ IF Dispatch("DELETE", EntryRoute) # "DeleteLedgerEntryAPIView"
       THEN Answer(p, Response("405", NoText, DeleteRequest))
       ELSE IF ~EntryPkExists(pk) THEN Answer(p, Response("404", NoText, DeleteRequest))
       ELSE /\ entries' = SelectSeq(entries, LAMBDA e : e.id # pk)
            /\ resp' = Response("200", NoText, DeleteRequest)
            /\ UNCHANGED <<now, chits, members, loans, next_pk, pc, req, loc, log>>

(***************************************************************************)
(* Login: POST api/chit/join/ (JoinChitAPIView).                           *)
(***************************************************************************)
GetChit(chit_id) == chits[CHOOSE i \in 1..Len(chits) : chits[i].chit_id = chit_id]

\* every member, whatever its chit
AllMembers(chit_id) == [i \in 1..Len(members) |-> members[Len(members) + 1 - i]]

\* Member.objects.filter(chit=chit), in the order of Member.Meta.ordering
\* ('-created_at'): the member created last comes first
MembersOf(chit_id) ==
    LET OfChit(m) == m.chit = chit_id
        own == SelectSeq(members, OfChit)
    IN [i \in 1..Len(own) |-> own[Len(own) + 1 - i]]

\* "for member in members: if check_password(password, member.password)":
\* the positions of the members the password matches
Matches(ms, password) ==
    {i \in 1..Len(ms) : CheckPassword(password, ms[i].password)}

\* JoinChitSerializer: validate_chit_id, password required and not blank
JoinErrors(chit_id, password) ==
    Errors(<< <<~ChitExists(chit_id), "chit_id">>,
              <<Blank(password), "password">> >>)

InvalidCredentials == <<"Invalid credentials">>

\* the response of JoinChitAPIView.post to a login request
JoinChitResponse(r) ==
    IF JoinErrors(r.chit, r.password) # <<>>
    THEN Response("400", JoinErrors(r.chit, r.password), r)
    ELSE IF r.is_admin
    THEN IF CheckPassword(r.password, GetChit(r.chit).password)
         THEN [Response("200", r.chit, r) EXCEPT !.is_admin = TRUE]
         ELSE Response("401", InvalidCredentials, r)
    ELSE LET ms   == MembersOf(r.chit)
             hits == Matches(ms, r.password)
         IN IF hits # {}
            THEN Response("200", ms[CHOOSE i \in hits : \A j \in hits : i <= j].member_id, r)
            ELSE Response("401", InvalidCredentials, r)

LoginRequest(chit_id, password, is_admin) ==
    [NoReq EXCEPT !.kind = "login", !.chit = chit_id, !.password = password,
                  !.is_admin = is_admin]

JoinChit(p, chit_id, password, is_admin) ==
    /\ pc[p] = "idle"
    /\ Answer(p, JoinChitResponse(LoginRequest(chit_id, password, is_admin)))

(***************************************************************************)
(* Reads: POST api/dashboard/ (DashboardAPIView) and POST api/loans/list/  *)
(* (GetLoansAPIView).                                                      *)
(***************************************************************************)
\* Model.objects.filter(chit=chit)
OfChit(rows, chit_id) == SelectSeq(rows, LAMBDA r : r.chit = chit_id)

\* the loans of a chit, whatever their status
AnyStatus(chit_id) == OfChit(loans, chit_id)

\* Loan.objects.filter(chit=chit, status='active')
ActiveLoans(chit_id) ==
    SelectSeq(loans, LAMBDA l : l.chit = chit_id /\ l.status = "active")

\* filter=models.Q(payment_method=method)
PaidBy(rows, method) == SelectSeq(rows, LAMBDA r : r.payment_method = method)

None == [none |-> TRUE, value |-> 0]

\* Sum(field) of aggregate(): the sum of the column, None when there is no row
Sum(rows, field) ==
    LET RECURSIVE Upto(_)
        Upto(i) == IF i = 0 THEN 0 ELSE Upto(i - 1) + rows[i][field]
    IN IF rows = <<>> THEN None ELSE [none |-> FALSE, value |-> Upto(Len(rows))]

\* the aggregate as it is
KeepNone(a) == a

\* "<aggregate> or 0"
OrZero(a) == IF a.none \/ a.value = 0 THEN [none |-> FALSE, value |-> 0] ELSE a

\* float(None) raises TypeError
FloatRaises(a) == a.none

\* float(<aggregate> or 0)
Float(a) == FloatOfDecimal(OrZero(a).value)

\* DashboardSerializer / GetLoansRequestSerializer: validate_chit_id
ReadErrors(chit_id) == Errors(<< <<~ChitExists(chit_id), "chit_id">> >>)

ReadRequest(kind, chit_id) == [NoReq EXCEPT !.kind = kind, !.chit = chit_id]

\* DashboardAPIView.post, the figures computed from the floats:
\* total_profit, outstanding_loans and net_balance
DashboardFigures(f) ==
    [f EXCEPT
       !.total_profit = FloatAdd(FloatAdd(FloatSub(f.total_amount, f.total_loan_amount),
                                          f.total_received_amount),
                                 f.total_fine),
       !.outstanding_loans = FloatSub(FloatAdd(f.total_loan_amount, f.total_loan_interest),
                                      f.total_received_amount),
       !.net_balance = FloatSub(FloatAdd(f.total_amount, f.total_fine),
                                FloatSub(FloatAdd(f.total_loan_amount,
                                                  f.total_loan_interest),
                                         f.total_received_amount))]

\* DashboardAPIView.post, the figures: the counts, the floats made of the
\* aggregates and the figures computed from the floats
DashboardTotals(chit_id) ==
    DashboardFigures(
       [total_members         |-> Len(OfChit(members, chit_id)),
        total_amount          |-> Float(Sum(OfChit(entries, chit_id), "amount")),
        total_fine            |-> Float(Sum(OfChit(entries, chit_id), "fine")),
        online_cash           |-> Float(Sum(PaidBy(OfChit(entries, chit_id), "online"),
                                            "amount")),
        offline_cash          |-> Float(Sum(PaidBy(OfChit(entries, chit_id), "offline"),
                                            "amount")),
        total_loan_amount     |-> Float(Sum(OfChit(loans, chit_id), "loan_amount")),
        total_loan_interest   |-> Float(Sum(OfChit(loans, chit_id), "interest_amount")),
        total_received_amount |-> Float(Sum(OfChit(loans, chit_id), "paid_amount")),
        active_loans          |-> Len(ActiveLoans(chit_id)),
        total_profit          |-> FloatOfDecimal(0),
        outstanding_loans     |-> FloatOfDecimal(0),
        net_balance           |-> FloatOfDecimal(0)])

\* the aggregates that DashboardAPIView.post passes to float()
DashboardAggregates(chit_id) ==
    LET ledger == OfChit(entries, chit_id)
        lent   == OfChit(loans, chit_id)
    IN {OrZero(Sum(ledger, "amount")), OrZero(Sum(ledger, "fine")),
        OrZero(Sum(PaidBy(ledger, "online"), "amount")),
        OrZero(Sum(PaidBy(ledger, "offline"), "amount")),
        OrZero(Sum(lent, "loan_amount")), OrZero(Sum(lent, "interest_amount")),
        OrZero(Sum(lent, "paid_amount"))}

\* "data" of the response: ten of the figures
DashboardData(t) ==
    [NoData EXCEPT
       !.total_amount = t.total_amount,
       !.total_profit = t.total_profit,
       !.total_members = t.total_members,
       !.active_loans = t.active_loans,
       !.total_loan_amount = t.total_loan_amount,
       !.total_loan_interest = t.total_loan_interest,
       !.total_fine = t.total_fine,
       !.online_cash = t.online_cash,
       !.offline_cash = t.offline_cash,
       !.net_balance = t.net_balance]

\* the response of DashboardAPIView.post
DashboardResponse(r) ==
    IF ReadErrors(r.chit) # <<>> THEN Response("400", ReadErrors(r.chit), r)
    ELSE IF \E a \in DashboardAggregates(r.chit) : FloatRaises(a) THEN Response("500", NoText, r)
    ELSE [Response("200", NoText, r) EXCEPT !.data = DashboardData(DashboardTotals(r.chit))]

Dashboard(p, chit_id) ==
    /\ pc[p] = "idle"
    /\ Answer(p, DashboardResponse(ReadRequest("dashboard", chit_id)))

\* the response of GetLoansAPIView.post: the statistics of the active loans
\* of the chit and the loans themselves, in the order of Loan.Meta.ordering
\* ('-created_at')
GetLoansResponse(r) ==
    IF ReadErrors(r.chit) # <<>> THEN Response("400", ReadErrors(r.chit), r)
    ELSE LET active_loans == ActiveLoans(r.chit)
             statistics   == {OrZero(Sum(active_loans, "loan_amount")),
                              OrZero(Sum(active_loans, "paid_amount")),
                              OrZero(Sum(active_loans, "interest_amount"))}
         IN IF \E a \in statistics : FloatRaises(a) THEN Response("500", NoText, r)
            ELSE [Response("200", NoText, r) EXCEPT
                    !.data = [NoData EXCEPT
                                !.active_count = Len(active_loans),
                                !.total_loan_amount = Float(Sum(active_loans, "loan_amount")),
                                !.total_received_amount = Float(Sum(active_loans, "paid_amount")),
                                !.total_interest = Float(Sum(active_loans, "interest_amount")),
                                !.loans = [i \in 1..Len(active_loans) |->
                                              active_loans[Len(active_loans) + 1 - i].loan_id]]]

GetLoans(p, chit_id) ==
    /\ pc[p] = "idle"
    /\ Answer(p, GetLoansResponse(ReadRequest("loans", chit_id)))

(***************************************************************************)
(* Admin site (core/admin.py): a registered Chit or Member can be changed  *)
(* and saved, and a Member deleted; the delete cascades to the member's    *)
(* loans and ledger entries.                                               *)
(***************************************************************************)
\* ChitAdmin change form, saved: chit_id and password are read-only fields,
\* Chit.save() runs on the stored row and the row is updated
AdminSaveChit(chit_id) ==
    /\ ChitExists(chit_id)
    /\ chits' = [i \in 1..Len(chits) |->
                    IF chits[i].chit_id = chit_id
                    THEN [chits[i] EXCEPT !.password = HashOnSave(@)]
                    ELSE chits[i]]
    /\ resp' = NoResp
    /\ UNCHANGED <<now, members, loans, entries, next_pk, pc, req, loc, log>>

\* MemberAdmin change form, saved: mobile_number and chit are fields of the
\* form (the password is not); the form checks the length of the mobile
\* number and unique_together against the other rows, then Member.save()
AdminChangeMember(member_id, chit_id, mobile_number) ==
    /\ MemberExists(member_id)
    /\ ChitExists(chit_id)
    /\ ~Blank(mobile_number)
    /\ Len(mobile_number) <= MobileMaxLength
    /\ ~\E i \in 1..Len(members) :
            /\ members[i].member_id # member_id
            /\ members[i].chit = chit_id
            /\ members[i].mobile_number = mobile_number
    /\ members' = [i \in 1..Len(members) |->
                      IF members[i].member_id = member_id
                      THEN [members[i] EXCEPT !.chit = chit_id,
                                              !.mobile_number = mobile_number,
                                              !.password = HashOnSave(@)]
                      ELSE members[i]]
    /\ resp' = NoResp
    /\ UNCHANGED <<now, chits, loans, entries, next_pk, pc, req, loc, log>>

\* the rows stay whatever is deleted
Untouched(rows, gone_chits, gone_members) == rows

\* on_delete=models.CASCADE of the foreign keys chit and member: the rows
\* that reference none of the deleted chits and members
Surviving(rows, gone_chits, gone_members) ==
    SelectSeq(rows, LAMBDA r : r.chit \notin gone_chits /\ r.member \notin gone_members)

\* MemberAdmin delete view: the member, and by cascade its loans and entries
AdminDeleteMember(member_id) ==
    /\ MemberExists(member_id)
    /\ members' = SelectSeq(members, LAMBDA m : m.member_id # member_id)
    /\ loans' = Surviving(loans, {}, {member_id})
    /\ entries' = Surviving(entries, {}, {member_id})
    /\ resp' = NoResp
    /\ UNCHANGED <<now, chits, next_pk, pc, req, loc, log>>

\* ChitAdmin delete view: the chit, and by cascade its members and the loans
\* and entries of the chit and of those members
AdminDeleteChit(chit_id) ==
    /\ ChitExists(chit_id)
    /\ LET gone == {members[i].member_id : i \in {j \in 1..Len(members) :
                                                    members[j].chit = chit_id}}
       IN /\ chits' = SelectSeq(chits, LAMBDA c : c.chit_id # chit_id)
          /\ members' = SelectSeq(members, LAMBDA m : m.chit # chit_id)
          /\ loans' = Surviving(loans, {chit_id}, gone)
          /\ entries' = Surviving(entries, {chit_id}, gone)
    /\ resp' = NoResp
    /\ UNCHANGED <<now, next_pk, pc, req, loc, log>>

(***************************************************************************)
(* The clock: the month ends.                                              *)
(***************************************************************************)
StartTime == [year |-> 2025, month |-> 12]

Elapsed == (now.year - StartTime.year) * 12 + (now.month - StartTime.month)

Tick ==
    /\ Elapsed < MaxTicks
    /\ now' = IF now.month = 12
              THEN [year |-> now.year + 1, month |-> 1]
              ELSE [year |-> now.year, month |-> now.month + 1]
    /\ resp' = NoResp
    /\ UNCHANGED <<chits, members, loans, entries, next_pk, pc, req, loc, log>>

(***************************************************************************)
(* Specifications.                                                         *)
(***************************************************************************)
Init ==
    /\ now = StartTime
    /\ chits = <<>>
    /\ members = <<>>
    /\ loans = <<>>
    /\ entries = <<>>
    /\ next_pk = 1
    /\ pc = [p \in Procs |-> "idle"]
    /\ req = [p \in Procs |-> NoReq]
    /\ loc = [p \in Procs |-> NoLoc]
    /\ resp = NoResp
    /\ log = <<>>

\* what a request may name: the rows there are, and one that is not there
ChitIdInputs == Range(IdsOf("chit")) \cup {NoId}
MemberIdInputs == Range(IdsOf("member")) \cup {NoId}
PkInputs == 1..next_pk
Amounts == (-1)..MaxAmount
Fines == (-1)..0
Durations == 0..MaxDuration
Dates == 1..MaxDate

\* passwords a caller may send: a plain one, one that begins with the
\* marker, one that is itself the encoding of a password, and a blank one
Password1 == <<"a">>
Passwords == {Password1, Marker \o <<"x">>, MakePassword(Password1), NoText}

\* mobile numbers a caller may send: two of ten digits beginning with 6..9,
\* one of five digits, one of ten digits beginning with 1, one of eleven
Mobile1 == <<"9", "8", "7", "6", "5", "4", "3", "2", "1", "0">>
Mobile2 == <<"6", "0", "0", "0", "0", "0", "0", "0", "0", "1">>
TwoMobiles == {Mobile1, Mobile2}
Mobiles == {Mobile1, Mobile2, <<"1", "2", "3", "4", "5">>,
            <<"1", "2", "3", "4", "5", "6", "7", "8", "9", "0">>,
            Mobile1 \o <<"0">>}

ChitInputs(passwords) ==
    [password : passwords, total_duration : Durations,
     starting_date : Dates, ending_date : Dates]

MemberInputs(passwords, mobiles) == [password : passwords, mobile_number : mobiles]

LoanInputs ==
    [loan_amount : 0..MaxAmount, interest_amount : (-1)..0,
     paid_amount : {0}, status : {"active"},
     starting_date : Dates, ending_date : Dates]

EntryInputs ==
    [amount : Amounts, fine : Fines, loan_amount : Fines, payment_method : {"online"}]

\* valid requests, for the runs that are not about validation
ChitInput1 ==
    [password |-> Password1, total_duration |-> 1, starting_date |-> 1, ending_date |-> 2]

LoanInput1 ==
    [loan_amount |-> 1, interest_amount |-> 0, paid_amount |-> 0,
     status |-> "active", starting_date |-> 1, ending_date |-> 2]

\* update requests: the amounts, and the fields an update does not take
UpdateInputs(amounts, fines, methods, member_ids, chit_ids, entry_ids, serials) ==
    [amount : amounts, fine : fines, loan_amount : fines, payment_method : methods,
     member : member_ids, chit : chit_ids, entry_id : entry_ids, serial_no : serials]

UpdateInputs1 == UpdateInputs(Amounts, {0}, {Absent}, {NoId}, {NoId}, {NoId}, {0})

EntryInputs1 ==
    [amount : Amounts, fine : {0}, loan_amount : {0}, payment_method : {"online"}]

Next ==
    \/ \E p \in Procs : Started < MaxCreates /\ CreateChit(p, ChitInput1)
    \/ \E p \in Procs, c \in ChitIdInputs, d \in MemberInputs({Password1}, TwoMobiles) :
          Started < MaxCreates /\ AddMember(p, c, d)
    \/ \E p \in Procs, m \in MemberIdInputs, c \in ChitIdInputs :
          Started < MaxCreates /\ AddLoan(p, m, c, LoanInput1)
    \/ \E p \in Procs, m \in MemberIdInputs, c \in ChitIdInputs, d \in EntryInputs1 :
          Started < MaxCreates /\ AddLedgerEntry(p, m, c, d)
    \/ \E p \in Procs : ReadLatest(p)
    \/ \E p \in Procs : CheckExists(p)
    \/ \E p \in Procs : ReadSerial(p)
    \/ \E p \in Procs : Insert(p)
    \/ \E p \in Procs, pk \in PkInputs, d \in UpdateInputs1 : UpdateLedgerEntry(p, pk, d)
    \/ \E p \in Procs : SaveEntry(p)
    \/ \E p \in Procs, pk \in PkInputs : DeleteLedgerEntry(p, pk)
    \/ \E m \in MemberIdInputs : AdminDeleteMember(m)
    \/ Tick

Spec == Init /\ [][Next]_vars

\* The same requests served one at a time by a single worker: a request is
\* answered before the next one (or an admin delete) starts.
NextSeq ==
    \/ Started < MaxSeqCreates /\ CreateChit(1, ChitInput1)
    \/ \E c \in ChitIdInputs, d \in MemberInputs({Password1}, TwoMobiles) :
          Started < MaxSeqCreates /\ AddMember(1, c, d)
    \/ \E m \in MemberIdInputs, c \in ChitIdInputs :
          Started < MaxSeqCreates /\ AddLoan(1, m, c, LoanInput1)
    \/ \E m \in MemberIdInputs, c \in ChitIdInputs, d \in EntryInputs1 :
          Started < MaxSeqCreates /\ AddLedgerEntry(1, m, c, d)
    \/ ReadLatest(1)
    \/ CheckExists(1)
    \/ ReadSerial(1)
    \/ Insert(1)
    \/ \E pk \in PkInputs, d \in UpdateInputs1 : UpdateLedgerEntry(1, pk, d)
    \/ SaveEntry(1)
    \/ \E pk \in PkInputs : DeleteLedgerEntry(1, pk)
    \/ \E m \in MemberIdInputs : pc[1] = "idle" /\ AdminDeleteMember(m)
    \/ pc[1] = "idle" /\ Tick

SpecSeq == Init /\ [][NextSeq]_vars

\* Chits and members created one at a time by a single worker with every
\* password a caller may send, logins, and the admin saving what was created.
NextAuth ==
    \/ \E pw \in Passwords :
          Started < MaxAuthCreates /\ CreateChit(1, [ChitInput1 EXCEPT !.password = pw])
    \/ \E c \in ChitIdInputs, d \in MemberInputs(Passwords, TwoMobiles) :
          Started < MaxAuthCreates /\ AddMember(1, c, d)
    \/ \E c \in ChitIdInputs, pw \in Passwords, a \in BOOLEAN : JoinChit(1, c, pw, a)
    \/ ReadLatest(1)
    \/ CheckExists(1)
    \/ Insert(1)
    \/ \E c \in ChitIdInputs : pc[1] = "idle" /\ AdminSaveChit(c)
    \/ \E m \in MemberIdInputs, c \in ChitIdInputs, n \in TwoMobiles :
          pc[1] = "idle" /\ AdminChangeMember(m, c, n)

SpecAuth == Init /\ [][NextAuth]_vars

\* Requests of every kind served one at a time by a single worker, with
\* every value of the validated fields, and the admin changing members.
NextValid ==
    \/ \E d \in ChitInputs({Password1}) : Started < MaxValidCreates /\ CreateChit(1, d)
    \/ \E c \in ChitIdInputs, d \in MemberInputs({Password1}, Mobiles) :
          Started < MaxValidCreates /\ AddMember(1, c, d)
    \/ \E m \in MemberIdInputs, c \in ChitIdInputs, d \in LoanInputs :
          Started < MaxValidCreates /\ AddLoan(1, m, c, d)
    \/ \E m \in MemberIdInputs, c \in ChitIdInputs, d \in EntryInputs :
          Started < MaxValidCreates /\ AddLedgerEntry(1, m, c, d)
    \/ ReadLatest(1)
    \/ CheckExists(1)
    \/ ReadSerial(1)
    \/ Insert(1)
    \/ \E m \in MemberIdInputs, c \in ChitIdInputs, n \in TwoMobiles :
          pc[1] = "idle" /\ AdminChangeMember(m, c, n)

SpecValid == Init /\ [][NextValid]_vars

\* sums of money in hundredths: one tenth, two tenths, ...
Tenths == {10 * k : k \in 1..MaxTenths}

ReadLoanInputs ==
    [loan_amount : {20}, interest_amount : {10}, paid_amount : {10},
     status : LoanStatuses \cup {"closed"}, starting_date : {1}, ending_date : {2}]

ReadEntryInputs ==
    [amount : Tenths, fine : {20}, loan_amount : {0},
     payment_method : PaymentMethods \cup {"cash"}]

ReadUpdateInputs ==
    UpdateInputs({10}, {20}, {"offline", "cash"}, {NoId}, {NoId}, {NoId}, {0})

\* there is room for one more row in the table and one more request
Room(rows) == Len(rows) < MaxReadRows /\ Started < MaxReadCreates

\* One worker creating chits, members, loans and ledger entries of several
\* statuses, payment methods and amounts, updating the entries, and reading
\* the dashboard and the list of loans of each chit.
NextRead ==
    \/ Room(chits) /\ CreateChit(1, ChitInput1)
    \/ \E c \in Range(IdsOf("chit")), d \in MemberInputs({Password1}, {Mobile1}) :
          Room(members) /\ AddMember(1, c, d)
    \/ \E m \in Range(IdsOf("member")), d \in ReadLoanInputs :
          Room(loans) /\ AddLoan(1, m, GetMember(m).chit, d)
    \/ \E m \in Range(IdsOf("member")), d \in ReadEntryInputs :
          Room(entries) /\ AddLedgerEntry(1, m, GetMember(m).chit, d)
    \/ ReadLatest(1)
    \/ CheckExists(1)
    \/ ReadSerial(1)
    \/ Insert(1)
    \/ \E pk \in PkInputs, d \in ReadUpdateInputs : UpdateLedgerEntry(1, pk, d)
    \/ SaveEntry(1)
    \/ \E c \in ChitIdInputs : Dashboard(1, c)
    \/ \E c \in ChitIdInputs : GetLoans(1, c)

SpecRead == Init /\ [][NextRead]_vars

\* what an update request may carry: a plain change of the amounts, a
\* negative amount, fine or loan amount, a payment method that is no choice,
\* and the fields that an update does not take
EditInputs ==
    LET plain == [amount |-> 1, fine |-> 0, loan_amount |-> 0,
                  payment_method |-> "offline", member |-> NoId, chit |-> NoId,
                  entry_id |-> NoId, serial_no |-> 0]
    IN {plain,
        [plain EXCEPT !.amount = 0 - 1],
        [plain EXCEPT !.fine = 0 - 1],
        [plain EXCEPT !.loan_amount = 0 - 1],
        [plain EXCEPT !.payment_method = "cash"]}
       \cup {[plain EXCEPT !.member = m, !.chit = c, !.serial_no = 7,
                           !.entry_id = MakeId(IdPrefix("entry", StartTime), 7)] :
                 m \in Range(IdsOf("member")), c \in Range(IdsOf("chit"))}

\* Two workers creating rows, updating and deleting ledger entries, and the
\* admin deleting chits and members.
NextEdit ==
    \/ \E p \in Procs : Started < MaxEditCreates /\ CreateChit(p, ChitInput1)
    \/ \E p \in Procs, c \in Range(IdsOf("chit")), d \in MemberInputs({Password1}, TwoMobiles) :
          Started < MaxEditCreates /\ AddMember(p, c, d)
    \/ \E p \in Procs, m \in Range(IdsOf("member")), c \in Range(IdsOf("chit")) :
          Started < MaxEditCreates /\ AddLoan(p, m, c, LoanInput1)
    \/ \E p \in Procs, m \in Range(IdsOf("member")), c \in Range(IdsOf("chit")),
          d \in EntryInputs1 :
          Started < MaxEditCreates /\ AddLedgerEntry(p, m, c, d)
    \/ \E p \in Procs : ReadLatest(p)
    \/ \E p \in Procs : CheckExists(p)
    \/ \E p \in Procs : ReadSerial(p)
    \/ \E p \in Procs : Insert(p)
    \/ \E p \in Procs, pk \in PkInputs, d \in EditInputs : UpdateLedgerEntry(p, pk, d)
    \/ \E p \in Procs : SaveEntry(p)
    \/ \E p \in Procs, pk \in PkInputs : DeleteLedgerEntry(p, pk)
    \/ \E m \in Range(IdsOf("member")) : AdminDeleteMember(m)
    \/ \E c \in Range(IdsOf("chit")) : AdminDeleteChit(c)

SpecEdit == Init /\ [][NextEdit]_vars

\* One worker creating chits one after another within one month.
NextSerial ==
    \/ Len(chits) < SerialRuns /\ CreateChit(1, ChitInput1)
    \/ ReadLatest(1)
    \/ CheckExists(1)
    \/ Insert(1)

SpecSerial == Init /\ [][NextSerial]_vars

\* The chits table after BulkCount chits were created one after another in
\* the starting month (the state SpecSerial reaches after BulkCount runs),
\* then further creations by one worker while the month may change.
BulkChits ==
    [i \in 1..BulkCount |->
        [chit_id |-> MakeId(IdPrefix("chit", StartTime), i),
         total_duration |-> ChitInput1.total_duration,
         starting_date |-> ChitInput1.starting_date,
         ending_date |-> ChitInput1.ending_date,
         password |-> HashOnSave(ChitInput1.password)]]

BulkLog ==
    [i \in 1..BulkCount |->
        [kind |-> "chit", id |-> MakeId(IdPrefix("chit", StartTime), i),
         chit |-> NoId, serial_no |-> 0,
         prefix |-> IdPrefix("chit", StartTime), status |-> "201",
         password |-> ChitInput1.password]]

InitBulk ==
    /\ now = StartTime
    /\ chits = BulkChits
    /\ members = <<>>
    /\ loans = <<>>
    /\ entries = <<>>
    /\ next_pk = 1
    /\ pc = [p \in Procs |-> "idle"]
    /\ req = [p \in Procs |-> NoReq]
    /\ loc = [p \in Procs |-> NoLoc]
    /\ resp = NoResp
    /\ log = BulkLog

NextBulk ==
    \/ Len(chits) < SerialRuns /\ CreateChit(1, ChitInput1)
    \/ ReadLatest(1)
    \/ CheckExists(1)
    \/ Insert(1)
    \/ Tick

SpecBulk == InitBulk /\ [][NextBulk]_vars

\* SpecSerial reaches the initial state of SpecBulk
BulkIsReachable ==
    (pc[1] = "idle" /\ Len(chits) = BulkCount) => (chits = BulkChits /\ log = BulkLog)

(***************************************************************************)
(* Vocabulary of the properties.                                           *)
(***************************************************************************)
\* the numeric suffix of an identifier
Suffix(id) == IntOf(SplitLast(id))

\* the answered create requests of a kind, as indices into log
Answered(kind) == {i \in 1..Len(log) : log[i].kind = kind}

\* those that were persisted
Persisted(kind) == {i \in Answered(kind) : log[i].status = "201"}

\* no row of this kind was deleted since the store was empty
NothingDeleted(kind) == Cardinality(Persisted(kind)) = Len(IdsOf(kind))

\* no row at all was deleted
NoDeletes == \A kind \in Kinds : NothingDeleted(kind)

\* no member was refused by the store for its mobile number
NoDuplicateMobile ==
    \A i \in 1..Len(log) : log[i].status # "500 duplicate mobile_number"

\* worker p has read the greatest identifier (or serial number) of its
\* table and has not yet inserted its row
InWindow(p) == pc[p] \in {"check", "serial", "insert"}

(***************************************************************************)
(* C1.  In every reachable state no two rows of the same table carry the   *)
(* same identifier, whatever the interleaving of the create requests.      *)
(***************************************************************************)
C1_UniqueIdentifiers ==
    \A kind \in Kinds :
        \A i, j \in 1..Len(IdsOf(kind)) :
            i # j => IdsOf(kind)[i] # IdsOf(kind)[j]

\* two create requests of one kind computed the same identifier; one was
\* persisted and the other refused by the store
C1_Witness ==
    \E i, j \in 1..Len(log) :
        /\ log[i].kind = log[j].kind
        /\ log[i].id = log[j].id
        /\ log[i].status = "201"
        /\ log[j].status = "500 duplicate id"
        /\ Exists(log[i].kind, log[i].id)

(***************************************************************************)
(* C2.  The read of the greatest identifier, the computation of the next   *)
(* one and the insert are one atomic step: while one create request is     *)
(* between its read and its insert, no other create request of the same    *)
(* kind reads or inserts.  Equivalently, two create requests of one kind   *)
(* are never both between their read and their insert.                     *)
(***************************************************************************)
C2_AllocationIsAtomic ==
    \A p, q \in Procs :
        (p # q /\ req[p].kind = req[q].kind) => ~(InWindow(p) /\ InWindow(q))

(***************************************************************************)
(* C3.  N create requests of one kind in one period yield N persisted      *)
(* identifiers: as long as nothing is deleted and no mobile number is sent *)
(* twice, the i-th request answered is persisted and carries suffix i      *)
(* (distinct, no gaps, increasing in commit order).                        *)
(***************************************************************************)
C3_ConcurrentCreatesAllPersist ==
    \A kind \in Kinds :
        (NoDeletes /\ NoDuplicateMobile) =>
            \A i \in Answered(kind) :
                LET before == {j \in Answered(kind) :
                                  j < i /\ log[j].prefix = log[i].prefix}
                IN /\ log[i].status = "201"
                   /\ Suffix(log[i].id) = Cardinality(before) + 1

(***************************************************************************)
(* C4.  No create request that passed validation ends in a duplicate       *)
(* identifier or duplicate serial number error.                            *)
(***************************************************************************)
C4_NoDuplicateError ==
    \A i \in 1..Len(log) :
        log[i].status \notin {"500 duplicate id", "500 duplicate serial_no"}

(***************************************************************************)
(* C5.  When chits are created one after another and nothing is deleted,   *)
(* every creation is persisted and the k-th chit created within a month    *)
(* carries suffix k, for every k >= 1: also beyond 999, where the greatest *)
(* identifier in string order is no longer the one created last.           *)
(***************************************************************************)
\* the months from the start up to now
RECURSIVE MonthAt(_)
MonthAt(k) ==
    IF k = 0 THEN StartTime
    ELSE LET t == MonthAt(k - 1)
         IN IF t.month = 12 THEN [year |-> t.year + 1, month |-> 1]
            ELSE [year |-> t.year, month |-> t.month + 1]

Months == {MonthAt(k) : k \in 0..Elapsed}

C5_KthGetsSuffixK ==
    pc[1] = "idle" =>
        /\ \A i \in 1..Len(log) : log[i].status = "201"
        /\ \A t \in Months :
              LET OfMonth(id) == StartsWith(id, IdPrefix("chit", t))
                  m == SelectSeq(IdsOf("chit"), OfMonth)
              IN \A k \in 1..Len(m) : Suffix(m[k]) = k

\* more than 1001 chits were created in the starting month: the last of
\* them was created when the greatest identifier in string order (999) was
\* no longer the latest one, and its first candidate (1000) was taken
C5_Witness ==
    /\ pc[1] = "idle"
    /\ now = StartTime
    /\ Len(chits) > 1001
    /\ LET ids == IdsOf("chit")
       IN /\ Suffix(LexMaxOf(ids, 1, Len(ids))) = 999
          /\ Suffix(ids[Len(ids)]) = Len(ids)

(***************************************************************************)
(* C6.  Every identifier has the shape PREFIX-YYYYMM-NNN: the prefix of    *)
(* its kind, six digits, and a sequence part of exactly three digits.      *)
(***************************************************************************)
WellFormedId(kind, id) ==
    LET n == Len(PrefixOf(kind))
    IN /\ Len(id) = n + 1 + 6 + 1 + 3
       /\ SubSeq(id, 1, n) = PrefixOf(kind)
       /\ id[n + 1] = "-"
       /\ \A i \in (n + 2)..(n + 7) : IsDigit(id[i])
       /\ id[n + 8] = "-"
       /\ \A i \in (n + 9)..(n + 11) : IsDigit(id[i])

C6_IdentifierShape ==
    \A kind \in Kinds :
        \A i \in 1..Len(IdsOf(kind)) : WellFormedId(kind, IdsOf(kind)[i])

(***************************************************************************)
(* C7.  The first identifier of a kind persisted under a new month's       *)
(* prefix has suffix 1, whatever identifiers of earlier months exist, and  *)
(* it carries the prefix of the month in which it was allocated.           *)
(***************************************************************************)
C7_RolloverRestartsAtOne ==
    \A kind \in Kinds :
        \A i \in Persisted(kind) :
            /\ StartsWith(log[i].id, log[i].prefix)
            /\ (\A j \in Persisted(kind) : j < i => log[j].prefix # log[i].prefix)
                  => Suffix(log[i].id) = 1

\* a row of an earlier month exists and a row of the same kind was
\* persisted in the new month
C7_Witness ==
    \E kind \in Kinds :
        \E i, j \in Persisted(kind) :
            /\ j < i
            /\ log[j].prefix # log[i].prefix
            /\ Exists(kind, log[j].id)
            /\ Exists(kind, log[i].id)
            /\ log[i].prefix = IdPrefix(kind, now)

(***************************************************************************)
(* C8.  N ledger-entry creations in a fund that starts empty end with the  *)
(* fund holding exactly the serial numbers 1..N, each once: as long as     *)
(* nothing is deleted and no creation of the fund is still being served,   *)
(* the fund holds the serial numbers 1..N for its N answered creations.    *)
(***************************************************************************)
\* the serial numbers the fund holds
SerialsOf(chit_id) ==
    {entries[i].serial_no : i \in {j \in 1..Len(entries) : entries[j].chit = chit_id}}

\* the ledger-entry creations of the fund that were answered
EntryRequests(chit_id) == {i \in Answered("entry") : log[i].chit = chit_id}

EntryInFlight(chit_id) ==
    \E p \in Procs : Creating(p) /\ req[p].kind = "entry" /\ req[p].chit = chit_id

C8_SerialsAreOneToN ==
    \A c \in Range(IdsOf("chit")) :
        (NoDeletes /\ ~EntryInFlight(c)) =>
            SerialsOf(c) = 1..Cardinality(EntryRequests(c))

(***************************************************************************)
(* C9.  In every reachable state no two ledger entries of the same fund    *)
(* share a serial number, whatever the interleaving of creations, updates  *)
(* and deletions.                                                          *)
(***************************************************************************)
C9_UniqueSerialPerFund ==
    \A i, j \in 1..Len(entries) :
        (i # j /\ entries[i].chit = entries[j].chit)
            => entries[i].serial_no # entries[j].serial_no

\* two creations in one fund computed the same serial number under
\* different identifiers; one was persisted, the other refused by the store
C9_Witness ==
    \E i, j \in Answered("entry") :
        /\ log[i].chit = log[j].chit
        /\ log[i].serial_no = log[j].serial_no
        /\ log[i].id # log[j].id
        /\ log[i].status = "201"
        /\ log[j].status = "500 duplicate serial_no"
        /\ log[i].serial_no \in SerialsOf(log[i].chit)

(***************************************************************************)
(* C10.  In every fund the first entry ever created gets serial number 1   *)
(* and every later one gets one more than the entry created before it in   *)
(* that fund, also after deletions: no serial number is given twice.       *)
(***************************************************************************)
C10_SerialFollowsPreviousCreation ==
    \A i \in Persisted("entry") :
        LET before == {j \in Persisted("entry") : j < i /\ log[j].chit = log[i].chit}
        IN IF before = {}
           THEN log[i].serial_no = 1
           ELSE LET prev == CHOOSE j \in before : \A k \in before : k <= j
                IN log[i].serial_no = log[prev].serial_no + 1

(***************************************************************************)
(* C11.  An entry_id given to a ledger entry is never given to another     *)
(* ledger entry created later, also after the first one was deleted: no    *)
(* two persisted creations of ledger entries carry the same entry_id.      *)
(***************************************************************************)
C11_EntryIdNeverReassigned ==
    \A i, j \in Persisted("entry") : i # j => log[i].id # log[j].id

(***************************************************************************)
(* C12.  A failed login gives the same outcome whatever its cause (the     *)
(* fund does not exist, the admin secret is wrong, no member of the fund   *)
(* matches): the response to a login that failed has the status and the    *)
(* body that every other failing login would get in the same state.        *)
(***************************************************************************)
\* the login requests that carry a fund id and a secret
LoginRequests ==
    {LoginRequest(c, pw, a) : c \in ChitIdInputs, pw \in Passwords \ {NoText},
                              a \in BOOLEAN}

FailedLogin(r) == r.kind = "login" /\ r.password # NoText /\ JoinChitResponse(r).status # "200"

C12_FailedLoginsIndistinguishable ==
    (FailedLogin(resp.to) /\ resp.status # "200") =>
        \A r \in LoginRequests :
            FailedLogin(r) =>
                /\ JoinChitResponse(r).status = resp.status
                /\ JoinChitResponse(r).body = resp.body

(***************************************************************************)
(* C13.  The stored secret of every fund and every member is the hash of   *)
(* the plaintext the caller supplied and never that plaintext itself, for  *)
(* every plaintext (also one that begins with 'pbkdf2_').                  *)
(***************************************************************************)
\* the stored password of the row of a kind (chit or member) with this id
StoredPassword(kind, id) ==
    IF kind = "chit" THEN GetChit(id).password ELSE GetMember(id).password

C13_SecretsStoredHashed ==
    \A kind \in {"chit", "member"} :
        \A i \in Persisted(kind) :
            Exists(kind, log[i].id) =>
                /\ StoredPassword(kind, log[i].id) = MakePassword(log[i].password)
                /\ StoredPassword(kind, log[i].id) # log[i].password

(***************************************************************************)
(* C14.  Round trip of the secrets: an admin login to a fund succeeds      *)
(* exactly when its password is the plaintext the fund was created with,   *)
(* and a member login to a fund succeeds exactly when its password is the  *)
(* plaintext some member of the fund was created with.                     *)
(***************************************************************************)
\* the plaintexts the rows of a login's target were created with
CreatedWith(r) ==
    IF r.is_admin
    THEN {log[i].password : i \in {j \in Persisted("chit") : log[j].id = r.chit}}
    ELSE {log[i].password :
             i \in {j \in Persisted("member") :
                       /\ MemberExists(log[j].id)
                       /\ GetMember(log[j].id).chit = r.chit}}

\* the last response answers a login that named an existing fund
LoginAnswered ==
    resp.to.kind = "login" /\ resp.to.password # NoText /\ ChitExists(resp.to.chit)

C14_LoginRoundTrip ==
    LoginAnswered => (resp.status = "200" <=> resp.to.password \in CreatedWith(resp.to))

(***************************************************************************)
(* C15.  Saving a fund or a member whose stored secret is already a hash   *)
(* leaves the stored secret as it is: no step changes a stored secret that *)
(* is a hash, and after every step a login with a plaintext that a row of  *)
(* the fund was created with (one that does not begin with the marker)     *)
(* has succeeded.                                                          *)
(***************************************************************************)
\* the text is an encoding made by the hasher
IsHash(text) == SplitFirst(text) = Algorithm

LoginWithOriginalSucceeds ==
    (/\ LoginAnswered
     /\ ~StartsWith(resp.to.password, Marker)
     /\ resp.to.password \in CreatedWith(resp.to)) => resp.status = "200"

C15_ResaveKeepsSecret ==
    [][/\ \A i \in 1..Len(chits) :
             IsHash(chits[i].password) => chits'[i].password = chits[i].password
       /\ \A i \in 1..Len(members) :
             IsHash(members[i].password) => members'[i].password = members[i].password
       /\ LoginWithOriginalSucceeds']_vars

\* a member was changed and saved in the admin after its creation, its
\* stored secret is still the hash of its plaintext, and a member login
\* with that plaintext has just returned it
C15_Witness ==
    \E i \in Persisted("member") :
        /\ MemberExists(log[i].id)
        /\ GetMember(log[i].id).chit # log[i].chit
        /\ GetMember(log[i].id).password = MakePassword(log[i].password)
        /\ resp.to.kind = "login"
        /\ resp.to.password = log[i].password
        /\ resp.status = "200"
        /\ resp.body = log[i].id

(***************************************************************************)
(* C16.  A member login (is_admin false) to fund F with secret p succeeds  *)
(* exactly when some member of F has a stored hash matching p; it then     *)
(* returns, with is_admin false, the first such member of F in the order   *)
(* of the query (the one created last); otherwise it is answered 401, also *)
(* when a member of another fund or the admin secret of F matches p.       *)
(***************************************************************************)
\* the rows of members of fund F whose stored secret matches p
MatchingMembers(F, p) ==
    {i \in 1..Len(members) :
        members[i].chit = F /\ CheckPassword(p, members[i].password)}

C16_MemberLogin ==
    (LoginAnswered /\ ~resp.to.is_admin) =>
        LET hits == MatchingMembers(resp.to.chit, resp.to.password)
        IN IF hits # {}
           THEN /\ resp.status = "200"
                /\ ~resp.is_admin
                /\ \E i \in hits : /\ resp.body = members[i].member_id
                                   /\ \A j \in hits : j <= i
           ELSE resp.status = "401"

\* a member login to a fund was refused although a member of another fund
\* and the admin secret of the fund itself match the secret
C16_Witness ==
    /\ LoginAnswered
    /\ ~resp.to.is_admin
    /\ resp.status = "401"
    /\ CheckPassword(resp.to.password, GetChit(resp.to.chit).password)
    /\ \E i \in 1..Len(members) :
          /\ members[i].chit # resp.to.chit
          /\ CheckPassword(resp.to.password, members[i].password)

(***************************************************************************)
(* C17.  The pair (fund, mobile number) is unique among the members, and a *)
(* request to add a member whose mobile number the fund already has is     *)
(* refused by validation: it never passes validation to be refused by the  *)
(* store.                                                                  *)
(***************************************************************************)
C17_DuplicateMobileIsValidationFailure ==
    /\ \A i, j \in 1..Len(members) :
          (i # j /\ members[i].chit = members[j].chit)
              => members[i].mobile_number # members[j].mobile_number
    /\ NoDuplicateMobile

(***************************************************************************)
(* C18.  A request to add a member whose mobile number is not exactly ten  *)
(* digits with the first digit in 6..9 persists no member: every member    *)
(* stored has such a mobile number.                                        *)
(***************************************************************************)
WellFormedMobile(n) ==
    /\ Len(n) = 10
    /\ \A i \in 1..Len(n) : IsDigit(n[i])
    /\ DigitVal(n[1]) \in 6..9

C18_MalformedMobileRejected ==
    \A i \in 1..Len(members) : WellFormedMobile(members[i].mobile_number)

(***************************************************************************)
(* C19.  A loan whose member belongs to another fund than the one named is *)
(* refused, so that in every reachable state the borrowing member of every *)
(* loan belongs to the fund that owns the loan.                            *)
(***************************************************************************)
\* a loan request that passed validation names a member of the fund it names
CrossFundLoanNeverAccepted ==
    \A p \in Procs :
        (req[p].kind = "loan" /\ MemberExists(req[p].member))
            => GetMember(req[p].member).chit = req[p].chit

C19_LoanMemberBelongsToFund ==
    \A i \in 1..Len(loans) :
        MemberExists(loans[i].member) => GetMember(loans[i].member).chit = loans[i].chit

(***************************************************************************)
(* C20.  A create request that fails validation or names a fund or member  *)
(* that does not exist (fund: end date not after start date, duration not  *)
(* positive; member: unknown fund; loan: principal not positive, negative  *)
(* interest, end date not after start date; ledger entry: negative amount, *)
(* fine or loan amount) is answered 400 and leaves the store as it was: no *)
(* row is inserted and no identifier or serial number is taken.            *)
(***************************************************************************)
InvalidChitRequest(d) ==
    d.ending_date <= d.starting_date \/ d.total_duration <= 0

InvalidMemberRequest(c) == ~ChitExists(c)

InvalidLoanRequest(m, c, d) ==
    \/ ~MemberExists(m) \/ ~ChitExists(c)
    \/ d.loan_amount <= 0 \/ d.interest_amount < 0
    \/ d.ending_date <= d.starting_date

InvalidEntryRequest(m, c, d) ==
    \/ ~MemberExists(m) \/ ~ChitExists(c)
    \/ d.amount < 0 \/ d.fine < 0 \/ d.loan_amount < 0

\* the step answers 400 and changes neither the tables nor the counters,
\* and starts no allocation
RejectedUntouched ==
    /\ resp'.status = "400"
    /\ UNCHANGED <<chits, members, loans, entries, next_pk, pc, loc, log>>

\* the step serves a create request that the claim calls invalid
InvalidCreate ==
    \/ \E d \in ChitInputs({Password1}) :
          InvalidChitRequest(d) /\ CreateChit(1, d)
    \/ \E c \in ChitIdInputs, d \in MemberInputs({Password1}, Mobiles) :
          InvalidMemberRequest(c) /\ AddMember(1, c, d)
    \/ \E m \in MemberIdInputs, c \in ChitIdInputs, d \in LoanInputs :
          InvalidLoanRequest(m, c, d) /\ AddLoan(1, m, c, d)
    \/ \E m \in MemberIdInputs, c \in ChitIdInputs, d \in EntryInputs :
          InvalidEntryRequest(m, c, d) /\ AddLedgerEntry(1, m, c, d)

C20_InvalidCreateLeavesStore == [][RejectedUntouched \/ ~InvalidCreate]_vars

\* a loan for an existing member of an existing fund was just refused for
\* its dates, with rows of three kinds in the store
C20_Witness ==
    /\ resp.status = "400"
    /\ resp.body = <<"ending_date">>
    /\ Len(chits) > 0
    /\ Len(members) > 0
    /\ Len(loans) > 0

(***************************************************************************)
(* Figures.  What the claims about the dashboard and the list of loans say *)
(* a figure is, computed from the rows in exact decimal arithmetic; a      *)
(* response holds the float of that decimal when its JSON number reads as  *)
(* that decimal.                                                           *)
(***************************************************************************)
\* the positions of the rows of a chit
IndexesOf(rows, chit_id) == {i \in 1..Len(rows) : rows[i].chit = chit_id}

RECURSIVE ExactSum(_, _, _)
ExactSum(rows, S, field) ==
    IF S = {} THEN 0
    ELSE LET i == CHOOSE j \in S : TRUE
         IN rows[i][field] + ExactSum(rows, S \ {i}, field)

ActiveIndexes(chit_id) ==
    {i \in IndexesOf(loans, chit_id) : loans[i].status = "active"}

DashboardAnswered == resp.to.kind = "dashboard" /\ resp.status = "200"

LoansAnswered == resp.to.kind = "loans" /\ resp.status = "200"

Zero == FloatOfDecimal(0)

\* the largest sum of one column of one table in the runs with reads
MaxSum == MaxReadRows * 10 * (MaxTenths + 1)

FloatTable == [c \in 0..MaxSum |-> FloatOfDecimal(c)]

\* the decimal, in hundredths, that a figure of a response reads as; -1
\* when it reads as no sum of hundredths
Shown(x) ==
    IF \E c \in 0..MaxSum : FloatTable[c] = x
    THEN CHOOSE c \in 0..MaxSum : FloatTable[c] = x
    ELSE 0 - 1

(***************************************************************************)
(* C21.  The dashboard of a fund shows: total_amount, the sum of the       *)
(* amounts of its ledger entries; total_fine, the sum of their fines;      *)
(* total_loan_amount, total_loan_interest and total_received_amount, the   *)
(* sums of principal, interest and repaid amount of its loans of any       *)
(* status; active_loans, the number of its loans with status active;       *)
(* total_profit = total_amount - total_loan_amount + total_received_amount *)
(* + total_fine; net_balance = total_amount + total_fine -                 *)
(* (total_loan_amount + total_loan_interest - total_received_amount).      *)
(* Rows of other funds contribute nothing.                                 *)
(***************************************************************************)
C21_DashboardTotals ==
    DashboardAnswered =>
        LET c  == resp.to.chit
            E  == IndexesOf(entries, c)
            L  == IndexesOf(loans, c)
            ta == ExactSum(entries, E, "amount")
            tf == ExactSum(entries, E, "fine")
            tl == ExactSum(loans, L, "loan_amount")
            ti == ExactSum(loans, L, "interest_amount")
            tr == ExactSum(loans, L, "paid_amount")
        IN /\ resp.data.total_amount = FloatOfDecimal(ta)
           /\ resp.data.total_fine = FloatOfDecimal(tf)
           /\ resp.data.total_loan_amount = FloatOfDecimal(tl)
           /\ resp.data.total_loan_interest = FloatOfDecimal(ti)
           /\ DashboardTotals(c).total_received_amount = FloatOfDecimal(tr)
           /\ resp.data.active_loans = Cardinality(ActiveIndexes(c))
           /\ resp.data.total_profit = FloatOfDecimal(ta - tl + tr + tf)
           /\ resp.data.net_balance = FloatOfDecimal(ta + tf - (tl + ti - tr))

(***************************************************************************)
(* C22.  The dashboard of an existing fund with no ledger entry and no     *)
(* loan is answered 200 with every total 0, never with an error; and       *)
(* online_cash (offline_cash) is 0 when no entry of the fund was paid      *)
(* online (offline).                                                       *)
(***************************************************************************)
C22_EmptyFundAllZero ==
    (resp.to.kind = "dashboard" /\ ChitExists(resp.to.chit)) =>
        LET c == resp.to.chit
            E == IndexesOf(entries, c)
        IN /\ resp.status = "200"
           /\ (E = {} /\ IndexesOf(loans, c) = {}) =>
                  /\ resp.data.total_amount = Zero
                  /\ resp.data.total_fine = Zero
                  /\ resp.data.total_loan_amount = Zero
                  /\ resp.data.total_loan_interest = Zero
                  /\ resp.data.total_profit = Zero
                  /\ resp.data.net_balance = Zero
                  /\ resp.data.online_cash = Zero
                  /\ resp.data.offline_cash = Zero
                  /\ resp.data.active_loans = 0
           /\ (\A i \in E : entries[i].payment_method # "online")
                  => resp.data.online_cash = Zero
           /\ (\A i \in E : entries[i].payment_method # "offline")
                  => resp.data.offline_cash = Zero

\* the dashboard of a fund that has a member and no entry and no loan was
\* answered, while another fund has an entry
C22_Witness ==
    /\ DashboardAnswered
    /\ IndexesOf(entries, resp.to.chit) = {}
    /\ IndexesOf(loans, resp.to.chit) = {}
    /\ IndexesOf(members, resp.to.chit) # {}
    /\ entries # <<>>
    /\ resp.data.total_amount = Zero
    /\ resp.data.net_balance = Zero

(***************************************************************************)
(* C23.  The list of loans of a fund gives the number of the fund's loans  *)
(* with status active and the sums of their principal, repaid amount and   *)
(* interest; loans with status overdue and loans of other funds count for  *)
(* nothing, the loans listed are the loans counted, and every figure is 0  *)
(* when the fund has no active loan.                                       *)
(***************************************************************************)
C23_ActiveLoansStatistics ==
    (resp.to.kind = "loans" /\ ChitExists(resp.to.chit)) =>
        LET A == ActiveIndexes(resp.to.chit)
        IN /\ resp.status = "200"
           /\ resp.data.active_count = Cardinality(A)
           /\ resp.data.total_loan_amount = FloatOfDecimal(ExactSum(loans, A, "loan_amount"))
           /\ resp.data.total_received_amount = FloatOfDecimal(ExactSum(loans, A, "paid_amount"))
           /\ resp.data.total_interest = FloatOfDecimal(ExactSum(loans, A, "interest_amount"))
           /\ Len(resp.data.loans) = Cardinality(A)
           /\ Range(resp.data.loans) = {loans[i].loan_id : i \in A}
           /\ A = {} => /\ resp.data.total_loan_amount = Zero
                         /\ resp.data.total_received_amount = Zero
                         /\ resp.data.total_interest = Zero
                         /\ resp.data.loans = <<>>

\* the loans of a fund with one active and one overdue loan were listed
C23_Witness ==
    /\ LoansAnswered
    /\ resp.data.active_count = 1
    /\ resp.data.total_loan_amount = FloatOfDecimal(20)
    /\ \E i \in IndexesOf(loans, resp.to.chit) : loans[i].status = "overdue"

(***************************************************************************)
(* C28.  In every reachable state and for every fund, the dashboard's      *)
(* online_cash plus its offline_cash is its total_amount, and every        *)
(* ledger entry in the store was paid online or offline.                   *)
(***************************************************************************)
C28_CashAddsUp ==
    /\ \A i \in 1..Len(entries) : entries[i].payment_method \in {"online", "offline"}
    /\ \A c \in Range(IdsOf("chit")) :
          LET t == DashboardTotals(c)
          IN /\ Shown(t.online_cash) >= 0
             /\ Shown(t.offline_cash) >= 0
             /\ Shown(t.online_cash) + Shown(t.offline_cash) = Shown(t.total_amount)
    /\ DashboardAnswered =>
          /\ resp.data.online_cash = DashboardTotals(resp.to.chit).online_cash
          /\ resp.data.offline_cash = DashboardTotals(resp.to.chit).offline_cash
          /\ resp.data.total_amount = DashboardTotals(resp.to.chit).total_amount

\* the dashboard of a fund with an entry paid online and one paid offline
\* was answered
C28_Witness ==
    /\ DashboardAnswered
    /\ Shown(resp.data.online_cash) > 0
    /\ Shown(resp.data.offline_cash) > 0

(***************************************************************************)
(* C24.  Deleting a fund deletes its members, loans and ledger entries,    *)
(* deleting a member deletes its loans and ledger entries, and in every    *)
(* reachable state the fund of each member, loan and entry and the member  *)
(* of each loan and entry exist.                                           *)
(***************************************************************************)
ReferencesHold ==
    /\ \A i \in 1..Len(members) : ChitExists(members[i].chit)
    /\ \A i \in 1..Len(loans) :
          ChitExists(loans[i].chit) /\ MemberExists(loans[i].member)
    /\ \A i \in 1..Len(entries) :
          ChitExists(entries[i].chit) /\ MemberExists(entries[i].member)

\* a step that deletes a fund or a member leaves no row of what it deleted
DeleteCascades ==
    /\ \A c \in Range(IdsOf("chit")) \ Range(IdsOf("chit")') :
          /\ \A i \in 1..Len(members') : members'[i].chit # c
          /\ \A i \in 1..Len(loans') : loans'[i].chit # c
          /\ \A i \in 1..Len(entries') : entries'[i].chit # c
    /\ \A m \in Range(IdsOf("member")) \ Range(IdsOf("member")') :
          /\ \A i \in 1..Len(loans') : loans'[i].member # m
          /\ \A i \in 1..Len(entries') : entries'[i].member # m

C24_CascadeDelete == []ReferencesHold /\ [][DeleteCascades]_vars

\* a chit, a member and a ledger entry were created and are gone, and the
\* chit that is left has no row of theirs
C24_Witness ==
    /\ Cardinality(Persisted("chit")) > Len(chits)
    /\ Cardinality(Persisted("member")) > Len(members)
    /\ Cardinality(Persisted("entry")) > Len(entries)
    /\ Len(chits) > 0

(***************************************************************************)
(* C25.  A DELETE request to api/ledger/entries/<id>/ for an existing      *)
(* ledger entry reaches the delete handler, removes that entry and leaves  *)
(* every other entry and every loan, member and fund as it was.            *)
(***************************************************************************)
C25_DeleteRemovesEntry ==
    [][\A p \in Procs, pk \in PkInputs :
          (EntryPkExists(pk) /\ DeleteLedgerEntry(p, pk)) =>
              /\ Dispatch("DELETE", EntryRoute) = "DeleteLedgerEntryAPIView"
              /\ resp'.status = "200"
              /\ entries' = SelectSeq(entries, LAMBDA e : e.id # pk)
              /\ UNCHANGED <<chits, members, loans>>]_vars

(***************************************************************************)
(* C26.  An update of a ledger entry, whatever fields the request carries  *)
(* (member_id, chit_id, entry_id and serial_no among them), leaves the     *)
(* entry's entry_id, serial_no, member and fund as they were and changes   *)
(* no other entry.                                                         *)
(***************************************************************************)
SameIdentity(a, b) ==
    /\ a.id = b.id
    /\ a.entry_id = b.entry_id
    /\ a.serial_no = b.serial_no
    /\ a.member = b.member
    /\ a.chit = b.chit

\* a step of an update request: the request is taken up, or its instance
\* is saved
UpdateKeepsIdentity ==
    \A p \in Procs :
        /\ (pc[p] = "idle" /\ pc'[p] = "save") => entries' = entries
        /\ (pc[p] = "save" /\ pc'[p] = "idle") =>
              \A i \in 1..Len(entries) :
                  /\ i <= Len(entries')
                  /\ SameIdentity(entries'[i], entries[i])
                  /\ entries[i].id # loc[p].inst.id => entries'[i] = entries[i]

C26_UpdateKeepsIdentity == [][UpdateKeepsIdentity]_vars

\* an update that named a member, an entry_id, a serial_no and another fund
\* than the entry's was saved
C26_Witness ==
    /\ resp.status = "200"
    /\ resp.to.kind = "update"
    /\ resp.to.member # NoId
    /\ resp.to.chit # NoId
    /\ resp.to.serial_no # 0
    /\ \A i \in 1..Len(entries) : entries[i].chit # resp.to.chit
    /\ \E i \in 1..Len(entries) : entries[i].payment_method = "offline"

(***************************************************************************)
(* C27.  An update or a delete of a ledger entry whose id does not exist   *)
(* is answered 404, an update of an existing entry with a negative amount, *)
(* fine or loan amount is answered with a validation error (400), and in   *)
(* both cases the store is left as it was.                                 *)
(***************************************************************************)
StoreUnchanged == UNCHANGED <<chits, members, loans, entries, next_pk>>

MissingOrInvalidRefused ==
    \A p \in Procs, pk \in PkInputs :
        /\ (~EntryPkExists(pk) /\ DeleteLedgerEntry(p, pk)) =>
              resp'.status = "404" /\ StoreUnchanged
        /\ \A d \in EditInputs :
              /\ (~EntryPkExists(pk) /\ UpdateLedgerEntry(p, pk, d)) =>
                    resp'.status = "404" /\ StoreUnchanged
              /\ ( /\ EntryPkExists(pk)
                   /\ d.amount < 0 \/ d.fine < 0 \/ d.loan_amount < 0
                   /\ UpdateLedgerEntry(p, pk, d) ) =>
                    resp'.status = "400" /\ StoreUnchanged

C27_MissingOrInvalidRefused == [][MissingOrInvalidRefused]_vars

Created == log'[Len(log')]

\* the identifier the next row of this kind gets once the step is taken
NextIdAfter(kind) == NextIdIn(IdsOf(kind)', IdPrefix(kind, now'))

SequencesIndependent ==
    (Len(log') = Len(log) + 1 /\ Created.status = "201") =>
        /\ \A kind \in Kinds \ {Created.kind} : NextIdAfter(kind) = NextIdOf(kind)
        /\ Created.kind = "entry" =>
              /\ Created.prefix = IdPrefix("entry", now) =>
                    /\ NextIdAfter("entry") # NextIdOf("entry")
                    /\ NextIdAfter("entry") # Created.id
              /\ \A c \in Range(IdsOf("chit")) :
                    GenerateSerialNo(c)' = IF c = Created.chit
                                           THEN Created.serial_no + 1
                                           ELSE GenerateSerialNo(c)

C30_SequencesIndependent == [][SequencesIndependent]_vars

\* a ledger entry was just created in one of two funds: the next serial
\* number of its fund is 2, that of the other fund is 1
C30_Witness ==
    /\ log # <<>>
    /\ log[Len(log)].kind = "entry"
    /\ log[Len(log)].status = "201"
    /\ pc = [p \in Procs |-> "idle"]
    /\ \E c \in Range(IdsOf("chit")) : GenerateSerialNo(c) = 2
    /\ \E c \in Range(IdsOf("chit")) : GenerateSerialNo(c) = 1
    /\ NextIdOf("entry") = MakeId(IdPrefix("entry", now), 2)

====
